---- MODULE Spec2Model ----
(***************************************************************************)
(* A model of fastnote: the file-backed note store of main.py (the cached  *)
(* collection NOTES, the backing file notes.json, the request handlers)    *)
(* and the display helper time_ago of utils.py.                            *)
(*                                                                         *)
(* A Python str is a sequence of one-character strings; a Python dict is   *)
(* a sequence of <<key, value>> pairs with distinct keys, in insertion     *)
(* order.  A note record is a TLA+ record with the four fields url, title, *)
(* quote, note.  The backing file is a sequence of bytes; every byte but   *)
(* BadByte decodes to the character of the same name.                      *)
(***************************************************************************)
EXTENDS Integers, Sequences, FiniteSets, TLC

\* ------------------------------------------------------------------ str

Digit == <<"0", "1", "2", "3", "4", "5", "6", "7", "8", "9">>

\* ord() of the characters note IDs are made of
Ord(c) ==
    CASE c = "-" -> 45
      [] c = "0" -> 48 [] c = "1" -> 49 [] c = "2" -> 50 [] c = "3" -> 51
      [] c = "4" -> 52 [] c = "5" -> 53 [] c = "6" -> 54 [] c = "7" -> 55
      [] c = "8" -> 56 [] c = "9" -> 57

RECURSIVE NatStr(_)
NatStr(n) ==
    IF n < 10 THEN <<Digit[n + 1]>>
    ELSE Append(NatStr(n \div 10), Digit[(n % 10) + 1])

\* str(n) of an int
str(n) == IF n < 0 THEN <<"-">> \o NatStr(-n) ELSE NatStr(n)

\* a < b of two str: by code point, a proper prefix being smaller
StrLess(a, b) ==
    \E i \in 1..(Len(b)) :
        /\ \A k \in 1..(i - 1) : k <= Len(a) /\ a[k] = b[k]
        /\ \/ i > Len(a)
           \/ Ord(a[i]) < Ord(b[i])

\* str.lower() on the characters of the model
lower_char(c) ==
    CASE c = "A" -> "a"
      [] c = "B" -> "b"
      [] OTHER -> c

lower(s) == [i \in 1..Len(s) |-> lower_char(s[i])]

\* sub in s
Contains(s, sub) ==
    \E i \in 0..(Len(s) - Len(sub)) :
        \A k \in 1..Len(sub) : s[i + k] = sub[k]

\* ----------------------------------------------------------------- dict

Keys(d) == [i \in 1..Len(d) |-> d[i][1]]

KeySet(d) == {d[i][1] : i \in 1..Len(d)}

\* set(d.items())
Items(d) == {d[i] : i \in 1..Len(d)}

\* d[k], for k in d
Get(d, k) == d[CHOOSE i \in 1..Len(d) : d[i][1] = k][2]

\* d[k] = v: an existing key keeps its position, a new key goes last
DictSet(d, k, v) ==
    IF k \in KeySet(d)
    THEN [i \in 1..Len(d) |-> IF d[i][1] = k THEN <<k, v>> ELSE d[i]]
    ELSE Append(d, <<k, v>>)

\* del d[k]
DictDel(d, k) == SelectSeq(d, LAMBDA e : e[1] # k)

RECURSIVE InsertAsc(_, _)
InsertAsc(sorted, e) ==
    IF sorted = <<>> THEN <<e>>
    ELSE IF StrLess(e[1], sorted[1][1]) THEN <<e>> \o sorted
    ELSE <<sorted[1]>> \o InsertAsc(Tail(sorted), e)

RECURSIVE SortedNoReverse(_)
\* put_notes sorting without reverse=True
SortedNoReverse(d) ==
    IF d = <<>> THEN <<>>
    ELSE InsertAsc(SortedNoReverse(SubSeq(d, 1, Len(d) - 1)), d[Len(d)])

RECURSIVE InsertDesc(_, _)
InsertDesc(sorted, e) ==
    IF sorted = <<>> THEN <<e>>
    ELSE IF StrLess(sorted[1][1], e[1]) THEN <<e>> \o sorted
    ELSE <<sorted[1]>> \o InsertDesc(Tail(sorted), e)

RECURSIVE SortedDesc(_)
\* dict(sorted(d.items(), key=lambda item: item[0], reverse=True))
SortedDesc(d) ==
    IF d = <<>> THEN <<>>
    ELSE InsertDesc(SortedDesc(SubSeq(d, 1, Len(d) - 1)), d[Len(d)])

\* ----------------------------------------------------------------- json

NL == "\n"

QUOTE == "\""

BACKSLASH == "\\"

\* a byte no UTF-8 text holds (0xFF)
BadByte == "xFF"

Indent(n) == [i \in 1..n |-> " "]

FieldNames == <<"url", "title", "quote", "note">>

\* the keys of a note record as str, in the order edit_post builds the dict
FieldKey ==
    [url   |-> <<"u", "r", "l">>,
     title |-> <<"t", "i", "t", "l", "e">>,
     quote |-> <<"q", "u", "o", "t", "e">>,
     note  |-> <<"n", "o", "t", "e">>]

\* json.encoder.ESCAPE_DCT (ensure_ascii=False), on the characters of the model
EscapeChar(c) ==
    CASE c = QUOTE     -> <<BACKSLASH, QUOTE>>
      [] c = BACKSLASH -> <<BACKSLASH, BACKSLASH>>
      [] c = NL        -> <<BACKSLASH, "n">>
      [] c = "\t"      -> <<BACKSLASH, "t">>
      [] OTHER         -> <<c>>

RECURSIVE EscapeBody(_)
EscapeBody(s) ==
    IF s = <<>> THEN <<>> ELSE EscapeChar(Head(s)) \o EscapeBody(Tail(s))

\* py_encode_basestring: the JSON text of a str
encode_basestring(s) == <<QUOTE>> \o EscapeBody(s) \o <<QUOTE>>

RECURSIVE DumpFields(_, _)
DumpFields(rec, i) ==
    LET line == <<NL>> \o Indent(8) \o encode_basestring(FieldKey[FieldNames[i]])
                \o <<":", " ">> \o encode_basestring(rec[FieldNames[i]])
    IN  IF i = Len(FieldNames) THEN line
        ELSE line \o <<",">> \o DumpFields(rec, i + 1)

\* one note record, at indentation level 1
DumpRecord(rec) == <<"{">> \o DumpFields(rec, 1) \o <<NL>> \o Indent(4) \o <<"}">>

RECURSIVE DumpMembers(_, _)
DumpMembers(d, i) ==
    LET line == <<NL>> \o Indent(4) \o encode_basestring(d[i][1]) \o <<":", " ">>
                \o DumpRecord(d[i][2])
    IN  IF i = Len(d) THEN line
        ELSE line \o <<",">> \o DumpMembers(d, i + 1)

\* json.dump(d, f, indent=4, ensure_ascii=False): the text written
json_dump(d) ==
    IF d = <<>> THEN <<"{", "}">>
    ELSE <<"{">> \o DumpMembers(d, 1) \o <<NL, "}">>

Whitespace == {" ", NL, "\t", "\r"}

\* characters a JSON string may not hold unescaped (strict mode)
ControlChars == {NL, "\t", "\r", "\f"}

\* json.decoder.BACKSLASH, without \b and \uXXXX
Unescape(c) ==
    CASE c = QUOTE     -> QUOTE
      [] c = BACKSLASH -> BACKSLASH
      [] c = "/"       -> "/"
      [] c = "n"       -> NL
      [] c = "t"       -> "\t"
      [] c = "r"       -> "\r"
      [] c = "f"       -> "\f"

Escapes == {QUOTE, BACKSLASH, "/", "n", "t", "r", "f"}

\* the first position from i on that holds no whitespace
SkipWs(s, i) ==
    CHOOSE j \in i..(Len(s) + 1) :
        /\ \A k \in i..(j - 1) : s[k] \in Whitespace
        /\ (j = Len(s) + 1 \/ s[j] \notin Whitespace)

Fail == [ok |-> FALSE]

RECURSIVE scanstring(_, _, _)
\* json.decoder.py_scanstring from the position after the opening quote
scanstring(s, i, acc) ==
    IF i > Len(s) THEN Fail
    ELSE IF s[i] = QUOTE THEN [ok |-> TRUE, val |-> acc, next |-> i + 1]
    ELSE IF s[i] = BACKSLASH
         THEN IF i + 1 <= Len(s) /\ s[i + 1] \in Escapes
              THEN scanstring(s, i + 2, Append(acc, Unescape(s[i + 1])))
              ELSE Fail
    ELSE IF s[i] \in ControlChars THEN Fail
    ELSE scanstring(s, i + 1, Append(acc, s[i]))

RECURSIVE scan_once(_, _)
RECURSIVE JSONObject(_, _, _)
\* json.decoder.JSONObject from the first member on: the pairs read so far in acc
JSONObject(s, i, acc) ==
    IF i > Len(s) \/ s[i] # QUOTE THEN Fail
    ELSE LET k == scanstring(s, i + 1, <<>>) IN
    IF ~k.ok THEN Fail
    ELSE LET c == SkipWs(s, k.next) IN
    IF c > Len(s) \/ s[c] # ":" THEN Fail
    ELSE LET v == scan_once(s, SkipWs(s, c + 1)) IN
    IF ~v.ok THEN Fail
    ELSE LET e    == SkipWs(s, v.next)
             pairs == DictSet(acc, k.val, v.val)
         IN
    IF e > Len(s) THEN Fail
    ELSE IF s[e] = "}" THEN [ok |-> TRUE, val |-> [obj |-> pairs], next |-> e + 1]
    ELSE IF s[e] = "," THEN JSONObject(s, SkipWs(s, e + 1), pairs)
    ELSE Fail

\* json.scanner.py_make_scanner._scan_once, for strings and objects
scan_once(s, i) ==
    IF i > Len(s) THEN Fail
    ELSE IF s[i] = QUOTE
         THEN LET r == scanstring(s, i + 1, <<>>) IN
              IF r.ok THEN [ok |-> TRUE, val |-> [str |-> r.val], next |-> r.next]
              ELSE Fail
    ELSE IF s[i] = "{"
         THEN LET j == SkipWs(s, i + 1) IN
              IF j <= Len(s) /\ s[j] = "}"
              THEN [ok |-> TRUE, val |-> [obj |-> <<>>], next |-> j + 1]
              ELSE JSONObject(s, j, <<>>)
    ELSE Fail

\* json.loads(s): JSONDecodeError on no value and on extra data
json_loads(s) ==
    LET v == scan_once(s, SkipWs(s, 1)) IN
    IF ~v.ok THEN Fail
    ELSE IF SkipWs(s, v.next) <= Len(s) THEN Fail
    ELSE [ok |-> TRUE, val |-> v.val]

IsStr(v) == DOMAIN v = {"str"}

IsObj(v) == DOMAIN v = {"obj"}

\* a parsed object as a note record
AsRecord(v) == [f \in {"url", "title", "quote", "note"} |-> Get(v.obj, FieldKey[f]).str]

\* a parsed document as a note collection
AsNotes(v) == [i \in 1..Len(v.obj) |-> <<v.obj[i][1], AsRecord(v.obj[i][2])>>]

\* the documents the model reads: every member a record of the four str fields
IsNotesDocument(v) ==
    /\ IsObj(v)
    /\ \A i \in 1..Len(v.obj) :
         LET r == v.obj[i][2] IN
         /\ IsObj(r)
         /\ KeySet(r.obj) = {FieldKey[f] : f \in {"url", "title", "quote", "note"}}
         /\ \A j \in 1..Len(r.obj) : IsStr(r.obj[j][2])

\* --------------------------------------------------------------- bounds

\* the clock stops here: time.time() runs over 9..MaxTime, so that the IDs
\* it produces cross a width boundary ("9" to "10")
MaxTime == 10

\* the writes the medium fails in one run (SpecFault)
MaxFaults == 1

\* the largest collection the read requests are served from (SpecRead):
\* three pages of the index, and more than a search page lists
MaxItems == 17

\* time_ago is applied to ages up to MaxHalves half units of every unit
MaxHalves == 7

\* ---------------------------------------------------------------- state

VARIABLES
    NOTES,      \* main.NOTES, the process-wide cached collection
    DATA_FILE,  \* notes.json: [exists, bytes]
    phase,      \* "down" before lifespan ran, then "serving" or "failed"
    now,        \* int(time.time())
    faults,     \* the writes the medium has failed
    request,    \* the request (or call, or clock tick) handled last
    response,   \* what it was answered with
    put_arg     \* the collection it handed to put_notes, None if it made no call

vars == <<NOTES, DATA_FILE, phase, now, faults, request, response, put_arg>>

None == <<"None">>

\* request.cookies.get("auth") of a request without the cookie
NoCookie == "<missing>"

PASSWORD_HASH == "<md5 of the password>"

Cookies == {NoCookie, PASSWORD_HASH, "<another value>"}

RecA == [url |-> <<"a">>, title |-> <<"B">>, quote |-> <<>>,
         note |-> <<QUOTE, BACKSLASH, NL>>]

RecB == [url |-> <<"b">>, title |-> <<>>, quote |-> <<"A">>, note |-> <<>>]

Records == {RecA, RecB}

\* the id field of a POST /edit: 0 is the default of an absent field
FormIds == {0, 9, 20}

\* the IDs of /note/{id}, /delete/{id} and /edit?id=
PathIds == {str(9), str(10), str(20)}

Queries == {<<>>, <<"a", "b">>, <<"a", " ", "b">>, <<"B">>, <<"u">>}

Pages == {0, 1, 2}

\* what the medium does to a write: open() raises, or the write raises
\* after open() truncated the file, or neither
Disk == {"ok", "open_fails", "write_fails"}

Missing == [exists |-> FALSE, bytes |-> <<>>]

File(bytes) == [exists |-> TRUE, bytes |-> bytes]

\* a document whose keys are not in descending order, as another writer left it
UnsortedDocument == json_dump(<< <<str(10), RecB>>, <<str(9), RecA>> >>)

InitialFiles ==
    { Missing,
      File(UnsortedDocument),
      File(SubSeq(UnsortedDocument, 1, Len(UnsortedDocument) - 1)),
      File(<<BadByte>> \o UnsortedDocument) }

\* ---------------------------------------------------------------- store

Returned(v) == [raised |-> "", value |-> v]

Raised(e) == [raised |-> e]

\* f.read() of a text file fails on a byte that is no UTF-8
Undecodable(bytes) == \E i \in 1..Len(bytes) : bytes[i] = BadByte

get_notes(f) ==
    IF ~f.exists THEN Returned(<<>>)
    ELSE IF Undecodable(f.bytes) THEN Raised("UnicodeDecodeError")
    ELSE LET r == json_loads(f.bytes) IN
         IF r.ok THEN Returned(AsNotes(r.val)) ELSE Returned(<<>>)

\* what open(DATA_FILE, "w") and json.dump leave in the file
Written(f, text, disk) ==
    CASE disk = "ok"          -> File(text)
      [] disk = "open_fails"  -> f
      [] disk = "write_fails" -> File(<<>>)

put_notes(notes, disk) ==
    LET sorted_notes == SortedDesc(notes) IN
    /\ disk # "ok" => faults < MaxFaults
    /\ faults' = IF disk = "ok" THEN faults ELSE faults + 1
    /\ put_arg' = notes
    /\ NOTES' = sorted_notes
    /\ DATA_FILE' = Written(DATA_FILE, json_dump(sorted_notes), disk)

\* a request that does not reach put_notes
NoPut ==
    /\ put_arg' = None
    /\ UNCHANGED <<NOTES, DATA_FILE, faults>>

\* set_auth_state taking any cookie that is present
AnyCookie(cookie) == cookie # NoCookie

set_auth_state(cookie) == cookie = PASSWORD_HASH

lifespan ==
    /\ phase = "down"
    /\ LET r == get_notes(DATA_FILE) IN
       /\ request' = [kind |-> "lifespan"]
       /\ response' = r
       /\ IF r.raised = ""
          THEN NOTES' = r.value /\ phase' = "serving"
          ELSE NOTES' = NOTES /\ phase' = "failed"
    /\ put_arg' = None
    /\ UNCHANGED <<DATA_FILE, now, faults>>

\* the clock advances
Tick ==
    /\ now < MaxTime
    /\ now' = now + 1
    /\ request' = [kind |-> "tick"]
    /\ response' = [status |-> 0]
    /\ NoPut
    /\ UNCHANGED phase

Init ==
    /\ NOTES = <<>>
    /\ DATA_FILE \in InitialFiles
    /\ phase = "down"
    /\ now = 9
    /\ faults = 0
    /\ request = [kind |-> "none"]
    /\ response = [status |-> 0]
    /\ put_arg = None

\* ------------------------------------------------------------- handlers

Min(a, b) == IF a < b THEN a ELSE b

\* s[lo:hi] for 0 <= lo
PySlice(s, lo, hi) ==
    LET n == Min(hi, Len(s)) - lo IN
    [i \in 1..(IF n > 0 THEN n ELSE 0) |-> s[lo + i]]

Chars(text) ==
    CASE text = "/"       -> <<"/">>
      [] text = "/note/"  -> <<"/", "n", "o", "t", "e", "/">>
      [] text = " recent notes" ->
             <<" ", "r", "e", "c", "e", "n", "t", " ", "n", "o", "t", "e", "s">>

\* RedirectResponse(url, status_code): the status is 307 where the code gives none
RedirectResponse(url, status_code) == [status |-> status_code, location |-> url]

\* HTTPException(status_code), and the 500 of an exception no handler catches
HTTPException(status_code) == [status |-> status_code]

\* limit of the index page
IndexLimit == 8

PageOf(p) == IF p > 0 THEN p ELSE 1

\* the offset counted from the end of the page
PageOffsetOffByOne(page) == IndexLimit * page

PageOffset(page) == IndexLimit * (page - 1)

PageCount(count) == (count + IndexLimit - 1) \div IndexLimit

\* notes_items[offset:offset + limit]
IndexSlice(notes_items, page) ==
    PySlice(notes_items, PageOffset(page), PageOffset(page) + IndexLimit)

index(p) ==
    /\ phase = "serving"
    /\ LET notes_items == NOTES
           page        == PageOf(p)
           count       == Len(notes_items)
       IN  /\ request' = [kind |-> "index", p |-> p]
           /\ response' = [status |-> 200,
                           notes |-> IndexSlice(notes_items, page),
                           page |-> page,
                           pages |-> PageCount(count)]
    /\ NoPut
    /\ UNCHANGED <<phase, now>>

\* previous_id taken from the newer side
PrevIdNewer(ids, i) == IF i > 1 THEN ids[i - 1] ELSE None

\* the neighbours of the key at position i of ids (lines 104-106)
PrevId(ids, i) == IF i + 1 <= Len(ids) THEN ids[i + 1] ELSE None

NextId(ids, i) == IF i > 1 THEN ids[i - 1] ELSE None

note(id) ==
    /\ phase = "serving"
    /\ request' = [kind |-> "note", id |-> id]
    /\ LET notes == NOTES IN
       IF id \notin KeySet(notes)
       THEN response' = HTTPException(404)
       ELSE LET ids == Keys(notes)
                i   == CHOOSE k \in 1..Len(ids) : ids[k] = id
            IN  response' = [status |-> 200, note |-> Get(notes, id), id |-> id,
                             previous_id |-> PrevId(ids, i),
                             next_id |-> NextId(ids, i)]
    /\ NoPut
    /\ UNCHANGED <<phase, now>>

SearchLimit == 16

\* the text without .lower()
ContentCaseSensitive(n) ==
    n.url \o <<" ">> \o n.title \o <<" ">> \o n.quote \o <<" ">> \o n.note

\* the text of a note a query is looked up in (line 130)
Content(n) ==
    lower(n.url \o <<" ">> \o n.title \o <<" ">> \o n.quote \o <<" ">> \o n.note)

Matches(n, q) == Contains(Content(n), lower(q))

search(q) ==
    /\ phase = "serving"
    /\ LET notes   == NOTES
           results == IF q # <<>>
                      THEN SelectSeq(notes, LAMBDA e : Matches(e[2], q))
                      ELSE notes
       IN  /\ request' = [kind |-> "search", q |-> q]
           /\ response' = [status |-> 200,
                           results |-> PySlice(results, 0, SearchLimit),
                           q |-> q,
                           label |-> str(Len(results)) \o Chars(" recent notes")]
    /\ NoPut
    /\ UNCHANGED <<phase, now>>

RssLimit == 16

rss ==
    /\ phase = "serving"
    /\ LET notes == NOTES IN
       /\ request' = [kind |-> "rss"]
       /\ response' = [status |-> 200,
                       notes |-> PySlice(notes, 0, RssLimit),
                       last_id |-> IF notes # <<>> THEN Keys(notes)[1]
                                   ELSE str(now)]
    /\ NoPut
    /\ UNCHANGED <<phase, now>>

BlankNote == [url |-> <<>>, title |-> <<>>, quote |-> <<>>, note |-> <<>>]

\* bool(id) of an Optional[str]
Truthy(id) == id # None /\ id # <<>>

edit_form(cookie, id) ==
    /\ phase = "serving"
    /\ request' = [kind |-> "edit_form", cookie |-> cookie, id |-> id]
    /\ IF ~set_auth_state(cookie)
       THEN response' = RedirectResponse(Chars("/"), 307)
       ELSE LET notes == NOTES IN
            response' = [status |-> 200,
                         note |-> IF Truthy(id) /\ id \in KeySet(notes)
                                  THEN Get(notes, id) ELSE BlankNote,
                         id |-> IF Truthy(id) THEN id ELSE <<>>]
    /\ NoPut
    /\ UNCHANGED <<phase, now>>

\* every submission stored as a new note
NoteIdAlwaysNew(id) == now

\* line 243: the ID a submission is stored under
NoteId(id) == IF id # 0 THEN id ELSE now

edit_post(cookie, id, new_note, disk) ==
    /\ phase = "serving"
    /\ request' = [kind |-> "edit_post", cookie |-> cookie, id |-> id,
                   note |-> new_note]
    /\ IF ~set_auth_state(cookie)
       THEN /\ response' = HTTPException(403)
            /\ NoPut
       ELSE LET note_id == NoteId(id)
                notes   == DictSet(NOTES, str(note_id), new_note)
            IN  /\ put_notes(notes, disk)
                /\ response' =
                     IF disk = "ok"
                     THEN RedirectResponse(Chars("/note/") \o str(note_id), 303)
                     ELSE HTTPException(500)
    /\ UNCHANGED <<phase, now>>

\* saving whether or not the ID is there
DeletesAlways(notes, id) == TRUE

\* line 256: whether the handler removes and saves
Deletes(notes, id) == id \in KeySet(notes)

delete_note(cookie, id, disk) ==
    /\ phase = "serving"
    /\ request' = [kind |-> "delete_note", cookie |-> cookie, id |-> id]
    /\ IF ~set_auth_state(cookie)
       THEN /\ response' = RedirectResponse(Chars("/"), 307)
            /\ NoPut
       ELSE IF Deletes(NOTES, id)
       THEN /\ put_notes(DictDel(NOTES, id), disk)
            /\ response' = IF disk = "ok" THEN RedirectResponse(Chars("/"), 307)
                           ELSE HTTPException(500)
       ELSE /\ response' = RedirectResponse(Chars("/"), 307)
            /\ NoPut
    /\ UNCHANGED <<phase, now>>

\* -------------------------------------------------------------- time_ago

\* utils.time_ago's tokens, in the order the dict is iterated
tokens ==
    << <<31536000, "year">>, <<2592000, "month">>, <<604800, "week">>,
       <<86400, "day">>, <<3600, "hour">>, <<60, "minute">>, <<1, "second">> >>

\* diff // unit
RoundDown(diff, unit) == diff \div unit

\* round(diff / unit): to the nearest integer, a tie to the even one
round(diff, unit) ==
    LET q == diff \div unit
        r == diff % unit
    IN  IF 2 * r < unit THEN q
        ELSE IF 2 * r > unit THEN q + 1
        ELSE IF q % 2 = 0 THEN q ELSE q + 1

RECURSIVE TokensFrom(_, _)
\* the loop of lines 47-52 from the i-th token on
TokensFrom(diff, i) ==
    IF i > Len(tokens) THEN "just now"
    ELSE IF diff < tokens[i][1] THEN TokensFrom(diff, i + 1)
    ELSE LET count == round(diff, tokens[i][1]) IN
         ToString(count) \o " " \o tokens[i][2] \o (IF count > 1 THEN "s" ELSE "")

Elapsed(timestamp) == IF now - timestamp < 1 THEN 1 ELSE now - timestamp

time_ago(timestamp) ==
    /\ request' = [kind |-> "time_ago", timestamp |-> timestamp]
    /\ response' = [text |-> TokensFrom(Elapsed(timestamp), 1)]
    /\ UNCHANGED <<NOTES, DATA_FILE, phase, now, faults, put_arg>>

\* ------------------------------------------------------- specifications

\* the requests that read
Reads ==
    \/ \E p \in Pages : index(p)
    \/ \E id \in PathIds : note(id)
    \/ \E q \in Queries : search(q)
    \/ rss
    \/ \E cookie \in Cookies, id \in PathIds \cup {None, <<>>} : edit_form(cookie, id)

\* the process on a medium that takes every write
Next ==
    \/ lifespan
    \/ Tick
    \/ Reads
    \/ \E cookie \in Cookies, id \in FormIds, new_note \in Records :
          edit_post(cookie, id, new_note, "ok")
    \/ \E cookie \in Cookies, id \in PathIds : delete_note(cookie, id, "ok")

Spec == Init /\ [][Next]_vars

\* the process on a medium whose writes may fail
NextFault ==
    \/ lifespan
    \/ Tick
    \/ Reads
    \/ \E cookie \in Cookies, id \in FormIds, new_note \in Records, disk \in Disk :
          edit_post(cookie, id, new_note, disk)
    \/ \E cookie \in Cookies, id \in PathIds, disk \in Disk :
          delete_note(cookie, id, disk)

SpecFault == Init /\ [][NextFault]_vars

\* a collection of n notes as put_notes leaves it: IDs 100+n-1 down to 100
Generated(n) ==
    [i \in 1..n |-> <<str(100 + n - i), IF i % 2 = 1 THEN RecA ELSE RecB>>]

ReadPages == {-1, 0, 1, 2, 3, 4, 999}

\* the process serving reads from a collection of up to MaxItems notes
InitRead ==
    /\ \E n \in 0..MaxItems : NOTES = Generated(n)
    /\ DATA_FILE = File(json_dump(NOTES))
    /\ phase = "serving"
    /\ now = 9
    /\ faults = 0
    /\ request = [kind |-> "lifespan"]
    /\ response = Returned(NOTES)
    /\ put_arg = None

NextRead ==
    \/ \E p \in ReadPages : index(p)
    \/ \E q \in Queries : search(q)
    \/ \E id \in {str(100), str(101), str(99)} : note(id)
    \/ rss

SpecRead == InitRead /\ [][NextRead]_vars

Units == {tokens[i][1] : i \in 1..Len(tokens)}

\* the ages time_ago is applied to: around every half multiple of every unit,
\* and every age up to three and a half minutes; -1 is a timestamp ahead of now
Ages ==
    (-1..210) \cup {(k * u) \div 2 + d : u \in Units, k \in 1..MaxHalves, d \in {-1, 0, 1}}

InitTime ==
    /\ NOTES = <<>>
    /\ DATA_FILE = Missing
    /\ phase = "down"
    /\ now = 1700000000
    /\ faults = 0
    /\ request = [kind |-> "none"]
    /\ response = [status |-> 0]
    /\ put_arg = None

NextTime == \E age \in Ages : time_ago(now - age)

SpecTime == InitTime /\ [][NextTime]_vars

\* --------------------------------------------------------------- claims

\* keys in strictly descending order of str
Descending(keys) ==
    \A i \in 1..Len(keys) : \A j \in (i + 1)..Len(keys) : StrLess(keys[j], keys[i])

RECURSIVE DecimalValue(_)
\* the number a str of decimal digits writes
DecimalValue(s) ==
    IF s = <<>> THEN 0
    ELSE 10 * DecimalValue(SubSeq(s, 1, Len(s) - 1)) + (Ord(s[Len(s)]) - 48)

\* str s is the decimal numeral of n >= 0, without leading zeros
IsDecimalOf(s, n) ==
    /\ s # <<>>
    /\ \A i \in 1..Len(s) : s[i] \in {Digit[d] : d \in 1..10}
    /\ Len(s) > 1 => s[1] # "0"
    /\ DecimalValue(s) = n

Authenticated(r) == r.cookie = PASSWORD_HASH

\* IDs of one width, the later timestamp first
NewestFirst(keys) ==
    \A i \in 1..Len(keys) : \A j \in (i + 1)..Len(keys) :
        Len(keys[i]) = Len(keys[j]) => DecimalValue(keys[j]) < DecimalValue(keys[i])

C2_Upsert ==
    [][ /\ (request'.kind = "edit_post" /\ Authenticated(request')) =>
             LET n == IF request'.id = 0 THEN now ELSE request'.id IN
             \E eff \in KeySet(NOTES') :
                 /\ IsDecimalOf(eff, n)
                 /\ Get(NOTES', eff) = request'.note
                 /\ KeySet(NOTES') = KeySet(NOTES) \cup {eff}
                 /\ Len(NOTES') = Cardinality(KeySet(NOTES'))
                 /\ \A k \in KeySet(NOTES) \ {eff} : Get(NOTES', k) = Get(NOTES, k)
                 /\ DATA_FILE'.exists
                 /\ get_notes(DATA_FILE') = Returned(NOTES')
                 /\ response'.status = 303
        /\ ( /\ request.kind = "edit_post" /\ Authenticated(request)
             /\ request.id = 0
             /\ request'.kind = "edit_post" /\ Authenticated(request')
             /\ request'.id = 0 ) =>
             /\ Len(NOTES') = Len(NOTES)
             /\ KeySet(NOTES') = KeySet(NOTES)
             /\ \E eff \in KeySet(NOTES') :
                    IsDecimalOf(eff, now) /\ Get(NOTES', eff) = request'.note
      ]_vars

\* a submission without id, stored under the current second beside an older
\* note it left alone
C2_Witness ==
    /\ request.kind = "edit_post" /\ Authenticated(request)
    /\ request.id = 0 /\ request.note = RecB
    /\ response.status = 303
    /\ put_arg # None /\ Len(put_arg) = 2
    /\ now = 10
    /\ Get(NOTES, str(10)) = RecB /\ Get(NOTES, str(9)) = RecA

\* C3: an authenticated delete of an ID that is not in the collection removes
\* nothing and writes neither the file nor the cache; of an ID that is in it,
\* it removes exactly that entry, keeps every other pair, and saves.
C3_Delete ==
    [][ (request'.kind = "delete_note" /\ Authenticated(request')) =>
            IF request'.id \notin KeySet(NOTES)
            THEN /\ put_arg' = None
                 /\ NOTES' = NOTES
                 /\ DATA_FILE' = DATA_FILE
            ELSE /\ Items(NOTES') = Items(NOTES) \ {<<request'.id, Get(NOTES, request'.id)>>}
                 /\ Len(NOTES') = Len(NOTES) - 1
                 /\ put_arg' # None
                 /\ DATA_FILE'.exists
                 /\ get_notes(DATA_FILE') = Returned(NOTES')
      ]_vars

\* a delete that removed one note of three
C3_Witness ==
    /\ request.kind = "delete_note" /\ Authenticated(request)
    /\ put_arg # None
    /\ Len(NOTES) = 2
    /\ request.id \notin KeySet(NOTES)

\* C4: a POST /edit, GET /delete/{id} or GET /edit whose cookie is missing or
\* is not PASSWORD_HASH changes neither NOTES nor the file, and is answered
\* 403 (POST /edit) or with a redirect to / (the other two); a request changes
\* the collection only if it carries the matching cookie.
C4_Unauthenticated ==
    [][ /\ ( /\ request'.kind \in {"edit_post", "delete_note", "edit_form"}
             /\ ~Authenticated(request') ) =>
             /\ NOTES' = NOTES
             /\ DATA_FILE' = DATA_FILE
             /\ put_arg' = None
             /\ response' = IF request'.kind = "edit_post"
                            THEN [status |-> 403]
                            ELSE [status |-> 307, location |-> <<"/">>]
        /\ (NOTES' # NOTES \/ DATA_FILE' # DATA_FILE) =>
             \/ request'.kind = "lifespan"
             \/ /\ request'.kind \in {"edit_post", "delete_note"}
                /\ Authenticated(request')
      ]_vars

\* a delete of a note that is there, refused for a cookie of another value
C4_Witness ==
    /\ request.kind = "delete_note"
    /\ request.cookie = "<another value>"
    /\ request.id \in KeySet(NOTES)
    /\ response.status = 307

\* the file holds a well-formed document
WellFormed(f) == f.exists /\ ~Undecodable(f.bytes) /\ json_loads(f.bytes).ok

\* every document the model reads is a collection of note records
DocumentsInDomain ==
    WellFormed(DATA_FILE) => IsNotesDocument(json_loads(DATA_FILE.bytes).val)

\* C5: get_notes never raises, whatever the file holds: startup on a missing
\* file or on one that does not parse returns the empty collection and leaves
\* the cache empty.
C5_LoadNeverRaises ==
    request.kind = "lifespan" =>
        /\ response.raised = ""
        /\ ~WellFormed(DATA_FILE) => (response.value = <<>> /\ NOTES = <<>>)

\* the text the claim looks a query up in: the fields concatenated
Concatenated(n) == n.url \o n.title \o n.quote \o n.note

\* the text the code looks a query up in: the fields joined by single spaces
Spaced(n) == n.url \o <<" ">> \o n.title \o <<" ">> \o n.quote \o <<" ">> \o n.note

\* the entries whose spaced text holds the query, in collection order
FoundSpaced(q) ==
    IF q = <<>> THEN NOTES
    ELSE SelectSeq(NOTES, LAMBDA e : Contains(lower(Spaced(e[2])), lower(q)))

\* the entries whose concatenated text holds the query, in collection order
FoundConcatenated(q) ==
    IF q = <<>> THEN NOTES
    ELSE SelectSeq(NOTES, LAMBDA e : Contains(lower(Concatenated(e[2])), lower(q)))

FirstOf(s, n) == [i \in 1..(IF Len(s) < n THEN Len(s) ELSE n) |-> s[i]]

\* the count a label "<count> recent notes" starts with
LabelCount(label) == DecimalValue(FirstOf(label, Len(label) - 13))

\* C6 (as amended): the search page lists, in collection order, the first 16 of
\* exactly the entries whose lowercased text url + " " + title + " " + quote +
\* " " + note holds the lowercased query (all entries for an empty query), and
\* its label counts all of them.
C6_SearchSpaced ==
    request.kind = "search" =>
        /\ response.results = FirstOf(FoundSpaced(request.q), 16)
        /\ LabelCount(response.label) = Len(FoundSpaced(request.q))

\* a query matched through the space between url and title, in a collection
\* longer than a page of results
C6_Witness ==
    /\ request.kind = "search"
    /\ request.q = <<"a", " ", "b">>
    /\ Len(NOTES) = MaxItems
    /\ Len(response.results) > 0
    /\ Len(response.results) < Len(NOTES)

\* C6 (as claimed): search returns exactly the entries whose lowercased
\* concatenation url + title + quote + note holds the lowercased query, all
\* entries for an empty query, none omitted or added.
C6_SearchConcatenated ==
    request.kind = "search" => response.results = FoundConcatenated(request.q)

\* C7: /note/{id} of an ID in the collection answers with previous = the key
\* right after it in iteration order and next = the key right before it; next
\* is absent exactly for the first key, previous exactly for the last; in a
\* collection in descending order previous is the next-older and next the
\* next-newer ID.  An ID that is not in the collection is answered 404.
C7_Neighbors ==
    request.kind = "note" =>
        IF request.id \notin KeySet(NOTES) THEN response.status = 404
        ELSE LET ids == Keys(NOTES)
                 i   == CHOOSE k \in 1..Len(ids) : ids[k] = request.id
             IN  /\ response.status = 200
                 /\ response.note = Get(NOTES, request.id)
                 /\ (response.next_id = None) <=> (i = 1)
                 /\ (response.previous_id = None) <=> (i = Len(ids))
                 /\ i > 1 => response.next_id = ids[i - 1]
                 /\ i < Len(ids) => response.previous_id = ids[i + 1]
                 /\ Descending(ids) =>
                      /\ i > 1 => StrLess(request.id, response.next_id)
                      /\ i < Len(ids) => StrLess(response.previous_id, request.id)

\* the note in the middle of three, between its two neighbours
C7_Witness ==
    /\ request.kind = "note"
    /\ Len(NOTES) = 3
    /\ request.id = NOTES[2][1]
    /\ response.previous_id = NOTES[3][1]
    /\ response.next_id = NOTES[1][1]

RECURSIVE PagesThrough(_)
\* the slices of pages 1..k, one after the other
PagesThrough(k) ==
    IF k = 0 THEN <<>> ELSE PagesThrough(k - 1) \o IndexSlice(NOTES, k)

\* C8: the index page of page p of n items: p below 1 is page 1; the slice is
\* the items at positions 8*(page-1) up to 8*page-1; pages is the ceiling of
\* n / 8; a page beyond the last is empty; the slices of all pages, one after
\* the other, are the collection.
C8_Pagination ==
    request.kind = "index" =>
        LET n     == Len(NOTES)
            page  == IF request.p < 1 THEN 1 ELSE request.p
            first == 8 * (page - 1) + 1
            last  == IF 8 * page < n THEN 8 * page ELSE n
        IN  /\ response.page = page
            /\ response.notes =
                 [i \in 1..(IF last >= first THEN last - first + 1 ELSE 0) |->
                     NOTES[first + i - 1]]
            /\ 8 * response.pages >= n
            /\ 8 * (response.pages - 1) < n
            /\ page > response.pages => response.notes = <<>>
            /\ (n = 3 /\ request.p = 999) =>
                 (response.notes = <<>> /\ response.pages = 1)
            /\ PagesThrough(response.pages) = NOTES

\* the third page of a collection of two full pages and one more note
C8_Witness ==
    /\ request.kind = "index"
    /\ request.p = 3
    /\ Len(NOTES) = 2 * IndexLimit + 1
    /\ response.notes = <<NOTES[Len(NOTES)]>>
    /\ response.pages = 3

\* the units of the claim
UnitName(u) ==
    CASE u = 31536000 -> "year"
      [] u = 2592000  -> "month"
      [] u = 604800   -> "week"
      [] u = 86400    -> "day"
      [] u = 3600     -> "hour"
      [] u = 60       -> "minute"
      [] u = 1        -> "second"

ClaimUnits == {31536000, 2592000, 604800, 86400, 3600, 60, 1}

\* C9: with elapsed = max(now - timestamp, 1), time_ago reports the largest
\* unit that elapsed reaches, with a count that is elapsed / unit rounded to a
\* nearest integer and at least 1, and an "s" exactly when the count is above
\* 1; never "just now"; 90 seconds are "2 minutes" and 30 are "30 seconds".
C9_TimeAgo ==
    request.kind = "time_ago" =>
        LET d       == now - request.timestamp
            elapsed == IF d > 1 THEN d ELSE 1
            unit    == CHOOSE u \in ClaimUnits :
                           /\ elapsed >= u
                           /\ \A v \in ClaimUnits : elapsed >= v => v <= u
        IN  /\ \E count \in 1..((elapsed \div unit) + 1) :
                  /\ 2 * (count * unit - elapsed) <= unit
                  /\ 2 * (elapsed - count * unit) <= unit
                  /\ response.text =
                       ToString(count) \o " " \o UnitName(unit)
                           \o (IF count > 1 THEN "s" ELSE "")
            /\ response.text # "just now"
            /\ elapsed = 90 => response.text = "2 minutes"
            /\ elapsed = 30 => response.text = "30 seconds"

\* a minute and a half ago
C9_Witness ==
    /\ request.kind = "time_ago"
    /\ now - request.timestamp = 90
    /\ response.text = "2 minutes"

\* C10: once the process serves, NOTES is the collection the file stores, in
\* the same key order (a missing or unparseable file counting as empty),
\* whatever requests were served and whether or not their writes succeeded.
C10_CacheEqualsFile ==
    phase = "serving" => get_notes(DATA_FILE) = Returned(NOTES)

====
